---- MODULE Spec2Model ----
\* A model of the Erc20 ink! contract of src/lib.rs: the storage struct, the
\* constructor and the three mutating messages, with the events each call emits.
EXTENDS Integers, Sequences, FiniteSets, TLC

\* ---------------------------------------------------------------- bounds and input domains
\* Largest value of the Balance type (u128 in the contract, narrowed here).
MaxBalance == 2
\* Longest log of events that is kept, the constructor's event included.
MaxLog == 3

\* AccountId values; the unit tests use [0x1; 32] and [0x0; 32].
AccountId == {"alice", "bob", "charlie"}
\* The account that deploys the contract, the accounts that call approve, and
\* the accounts they name as spender, which are those that call transfer_from.
Deployer == "alice"
Owners == {"alice", "bob"}
Spenders == {"bob"}
Modulus == MaxBalance + 1
Balance == 0 .. MaxBalance

\* Option<AccountId> of the Transfer event.
None == <<>>
Some(a) == <<a>>

VARIABLES
    total_supply,   \* Erc20.total_supply
    balances,       \* Erc20.balances : HashMap<AccountId, Balance>
    allowances,     \* Erc20.allowances : HashMap<(AccountId, AccountId), Balance>
    emitted,        \* the events the last call handed to env().emit_event, in order
    last,           \* the last call: message, caller, arguments and returned value
    audit,          \* history of each (owner, spender) pair: its approvals and
                    \* what the spender moved out of the owner's balance since
    log             \* history of the events: all of them since construction

vars == <<total_supply, balances, allowances, emitted, last, audit, log>>

\* ---------------------------------------------------------------- helpers
\* HashMap::insert: adds the key or overwrites its value.
insert(map, key, value) ==
    [k \in (DOMAIN map) \cup {key} |-> IF k = key THEN value ELSE map[k]]

\* Unsigned arithmetic of the Balance type, at its width.
wrapping_add(a, b) == (a + b) % Modulus
wrapping_sub(a, b) == (a - b + Modulus) % Modulus

balance_of_or_zero(bals, owner) ==
    IF owner \in DOMAIN bals THEN bals[owner] ELSE 0

allowance_of_or_zero(alws, owner, spender) ==
    IF <<owner, spender>> \in DOMAIN alws THEN alws[<<owner, spender>>] ELSE 0

\* The messages that only read.
balance_of(owner) == balance_of_or_zero(balances, owner)
allowance(owner, spender) == allowance_of_or_zero(allowances, owner, spender)

TransferEvent(from, to, value) ==
    [event |-> "Transfer", from |-> from, to |-> to, value |-> value]
ApprovalEvent(owner, spender, value) ==
    [event |-> "Approval", owner |-> owner, spender |-> spender, value |-> value]

\* Variants of transfer_from_to, each with one slip in it.
\* The decrement of the sender's balance is left out.
transfer_from_to_no_debit(bals, from, to, value) ==
    LET from_balance == balance_of_or_zero(bals, from) IN
    IF from_balance < value
    THEN [ret |-> FALSE, balances |-> bals, emitted |-> <<>>]
    ELSE LET to_balance == balance_of_or_zero(bals, to)
             bals2 == insert(bals, to, wrapping_add(to_balance, value))
         IN [ret |-> TRUE, balances |-> bals2,
             emitted |-> <<TransferEvent(Some(from), Some(to), value)>>]

\* The balance check refuses a transfer of the whole balance.
transfer_from_to_strict(bals, from, to, value) ==
    LET from_balance == balance_of_or_zero(bals, from) IN
    IF from_balance <= value
    THEN [ret |-> FALSE, balances |-> bals, emitted |-> <<>>]
    ELSE LET bals1 == insert(bals, from, wrapping_sub(from_balance, value))
             to_balance == balance_of_or_zero(bals1, to)
             bals2 == insert(bals1, to, wrapping_add(to_balance, value))
         IN [ret |-> TRUE, balances |-> bals2,
             emitted |-> <<TransferEvent(Some(from), Some(to), value)>>]

\* The recipient's balance is read before the sender's is written.
transfer_from_to_stale(bals, from, to, value) ==
    LET from_balance == balance_of_or_zero(bals, from)
        to_balance == balance_of_or_zero(bals, to)
    IN
    IF from_balance < value
    THEN [ret |-> FALSE, balances |-> bals, emitted |-> <<>>]
    ELSE LET bals1 == insert(bals, from, wrapping_sub(from_balance, value))
             bals2 == insert(bals1, to, wrapping_add(to_balance, value))
         IN [ret |-> TRUE, balances |-> bals2,
             emitted |-> <<TransferEvent(Some(from), Some(to), value)>>]

\* A sender without a balance entry is refused, whatever the value.
transfer_from_to_requires_entry(bals, from, to, value) ==
    LET from_balance == balance_of_or_zero(bals, from) IN
    IF from \notin DOMAIN bals \/ from_balance < value
    THEN [ret |-> FALSE, balances |-> bals, emitted |-> <<>>]
    ELSE LET bals1 == insert(bals, from, wrapping_sub(from_balance, value))
             to_balance == balance_of_or_zero(bals1, to)
             bals2 == insert(bals1, to, wrapping_add(to_balance, value))
         IN [ret |-> TRUE, balances |-> bals2,
             emitted |-> <<TransferEvent(Some(from), Some(to), value)>>]

\* The event names the recipient as the source and the sender as recipient.
transfer_from_to_swapped_event(bals, from, to, value) ==
    LET from_balance == balance_of_or_zero(bals, from) IN
    IF from_balance < value
    THEN [ret |-> FALSE, balances |-> bals, emitted |-> <<>>]
    ELSE LET bals1 == insert(bals, from, wrapping_sub(from_balance, value))
             to_balance == balance_of_or_zero(bals1, to)
             bals2 == insert(bals1, to, wrapping_add(to_balance, value))
         IN [ret |-> TRUE, balances |-> bals2,
             emitted |-> <<TransferEvent(Some(to), Some(from), value)>>]

\* The event is emitted before the balance is checked.
transfer_from_to_event_first(bals, from, to, value) ==
    LET from_balance == balance_of_or_zero(bals, from) IN
    IF from_balance < value
    THEN [ret |-> FALSE, balances |-> bals,
          emitted |-> <<TransferEvent(Some(from), Some(to), value)>>]
    ELSE LET bals1 == insert(bals, from, wrapping_sub(from_balance, value))
             to_balance == balance_of_or_zero(bals1, to)
             bals2 == insert(bals1, to, wrapping_add(to_balance, value))
         IN [ret |-> TRUE, balances |-> bals2,
             emitted |-> <<TransferEvent(Some(from), Some(to), value)>>]

\* The balance compared with the value is the recipient's.
transfer_from_to_wrong_check(bals, from, to, value) ==
    LET from_balance == balance_of_or_zero(bals, from) IN
    IF balance_of_or_zero(bals, to) < value
    THEN [ret |-> FALSE, balances |-> bals, emitted |-> <<>>]
    ELSE LET bals1 == insert(bals, from, wrapping_sub(from_balance, value))
             to_balance == balance_of_or_zero(bals1, to)
             bals2 == insert(bals1, to, wrapping_add(to_balance, value))
         IN [ret |-> TRUE, balances |-> bals2,
             emitted |-> <<TransferEvent(Some(from), Some(to), value)>>]

\* transfer_from_to: the balances after the call, the events it emits and
\* the value it returns.
transfer_from_to(bals, from, to, value) ==
    LET from_balance == balance_of_or_zero(bals, from) IN
    IF from_balance < value
    THEN [ret |-> FALSE, balances |-> bals, emitted |-> <<>>]
    ELSE LET bals1 == insert(bals, from, wrapping_sub(from_balance, value))
             to_balance == balance_of_or_zero(bals1, to)
             bals2 == insert(bals1, to, wrapping_add(to_balance, value))
         IN [ret |-> TRUE, balances |-> bals2,
             emitted |-> <<TransferEvent(Some(from), Some(to), value)>>]

Call(op, caller, from, to, value, ret) ==
    [op |-> op, caller |-> caller, from |-> from, to |-> to,
     value |-> value, ret |-> ret]

\* ---------------------------------------------------------------- history
\* audit[<<o, s>>] counts the approve(s, _) calls of o (n, 3 standing for three
\* or more and 4 for a pair that is not followed), keeps the value of the first
\* (N) and of the second (M), and sums the values that successful
\* transfer_from(o, to, _) calls of s with to /= o took out of o's balance
\* since the first of them (moved); N, M and moved are not kept past the second
\* approve. It also keeps the value of the latest approve (cur) and the sum of
\* the values of all successful transfer_from(o, _, _) calls of s since that
\* approve (spent). SpecAudit follows the pair Followed, and Spec follows none.
NoApproval == [n |-> 0, N |-> 0, M |-> 0, moved |-> 0, cur |-> 0, spent |-> 0]
NotFollowed == [n |-> 4, N |-> 0, M |-> 0, moved |-> 0, cur |-> 0, spent |-> 0]
Followed == <<"alice", "bob">>

audit_approve(aud, owner, spender, value) ==
    LET h == aud[<<owner, spender>>]
        h1 == CASE h.n = 0 -> [NoApproval EXCEPT !.n = 1, !.N = value, !.cur = value]
                [] h.n = 1 -> [h EXCEPT !.n = 2, !.M = value, !.cur = value, !.spent = 0]
                [] h.n \in {2, 3} -> [NoApproval EXCEPT !.n = 3, !.cur = value]
                [] OTHER -> NotFollowed
    IN [aud EXCEPT ![<<owner, spender>>] = h1]

audit_transfer_from(aud, caller, from, to, value) ==
    LET h == aud[<<from, caller>>] IN
    IF h.n \in {1, 2, 3}
    THEN [aud EXCEPT ![<<from, caller>>] =
             [h EXCEPT !.spent = h.spent + value,
                       !.moved = IF h.n \in {1, 2} /\ to # from
                                 THEN h.moved + value ELSE h.moved]]
    ELSE aud

\* log is every event handed to env().emit_event since construction, in
\* order. The constructor emits one, so that a log that is kept is never
\* empty: SpecLog keeps it, and the other specifications leave it empty.
log_emit(l, events) == IF l = <<>> THEN l ELSE l \o events

\* ---------------------------------------------------------------- operations
\* Variant of new: the total_supply field is left at zero.
new_unset_supply(caller, inital_supply) ==
    /\ total_supply = 0
    /\ balances = insert(<<>>, caller, inital_supply)
    /\ allowances = <<>>
    /\ emitted = <<TransferEvent(None, Some(caller), inital_supply)>>
    /\ last = Call("new", caller, caller, caller, inital_supply, TRUE)

\* Variant of new: the event names the caller as the source of the supply.
new_event_from_caller(caller, inital_supply) ==
    /\ total_supply = inital_supply
    /\ balances = insert(<<>>, caller, inital_supply)
    /\ allowances = <<>>
    /\ emitted = <<TransferEvent(Some(caller), Some(caller), inital_supply)>>
    /\ last = Call("new", caller, caller, caller, inital_supply, TRUE)

\* new(inital_supply), called by caller.
new(caller, inital_supply) ==
    /\ total_supply = inital_supply
    /\ balances = insert(<<>>, caller, inital_supply)
    /\ allowances = <<>>
    /\ emitted = <<TransferEvent(None, Some(caller), inital_supply)>>
    /\ last = Call("new", caller, caller, caller, inital_supply, TRUE)

Init ==
    /\ \E inital_supply \in Balance : new(Deployer, inital_supply)
    /\ audit = [p \in AccountId \X AccountId |-> NotFollowed]
    /\ log = <<>>

\* The same, with the approvals of Followed recorded from the first on.
InitAudit ==
    /\ \E inital_supply \in Balance : new(Deployer, inital_supply)
    /\ audit = [p \in AccountId \X AccountId |->
                    IF p = Followed THEN NoApproval ELSE NotFollowed]
    /\ log = <<>>

\* The same as Init, with the log of events kept from the constructor's on.
InitLog ==
    /\ \E inital_supply \in Balance : new(Deployer, inital_supply)
    /\ audit = [p \in AccountId \X AccountId |-> NotFollowed]
    /\ log = emitted

transfer(caller, to, value) ==
    \E r \in {transfer_from_to(balances, caller, to, value)} :
    /\ balances' = r.balances
    /\ emitted' = r.emitted
    /\ last' = Call("transfer", caller, caller, to, value, r.ret)
    /\ log' = log_emit(log, r.emitted)
    /\ UNCHANGED <<total_supply, allowances, audit>>

\* Variant of approve: the value is added to the allowance there is.
approve_additive(caller, spender, value) ==
    LET owner == caller IN
    /\ allowances' = insert(allowances, <<owner, spender>>,
            wrapping_add(allowance_of_or_zero(allowances, owner, spender), value))
    /\ emitted' = <<ApprovalEvent(owner, spender, value)>>
    /\ last' = Call("approve", caller, owner, spender, value, TRUE)
    /\ audit' = audit_approve(audit, owner, spender, value)
    /\ log' = log_emit(log, <<ApprovalEvent(owner, spender, value)>>)
    /\ UNCHANGED <<total_supply, balances>>

approve(caller, spender, value) ==
    LET owner == caller IN
    /\ allowances' = insert(allowances, <<owner, spender>>, value)
    /\ emitted' = <<ApprovalEvent(owner, spender, value)>>
    /\ last' = Call("approve", caller, owner, spender, value, TRUE)
    /\ audit' = audit_approve(audit, owner, spender, value)
    /\ log' = log_emit(log, <<ApprovalEvent(owner, spender, value)>>)
    /\ UNCHANGED <<total_supply, balances>>

\* Variants of transfer_from, each with one slip in it.
\* The allowance is written before the result of the transfer is looked at.
do_transfer_from_eager(bals, alws, caller, from, to, value) ==
    LET allowance_ == allowance_of_or_zero(alws, from, caller) IN
    IF allowance_ < value
    THEN [ret |-> FALSE, balances |-> bals, allowances |-> alws, emitted |-> <<>>]
    ELSE LET transfer_result == transfer_from_to(bals, from, to, value)
             alws1 == insert(alws, <<from, caller>>, wrapping_sub(allowance_, value))
         IN [ret |-> transfer_result.ret, balances |-> transfer_result.balances,
             allowances |-> alws1, emitted |-> transfer_result.emitted]

\* The allowance read is the one the caller gave to from.
do_transfer_from_swapped(bals, alws, caller, from, to, value) ==
    LET allowance_ == allowance_of_or_zero(alws, caller, from) IN
    IF allowance_ < value
    THEN [ret |-> FALSE, balances |-> bals, allowances |-> alws, emitted |-> <<>>]
    ELSE LET transfer_result == transfer_from_to(bals, from, to, value) IN
         IF ~transfer_result.ret
         THEN [ret |-> FALSE, balances |-> transfer_result.balances,
               allowances |-> alws, emitted |-> transfer_result.emitted]
         ELSE [ret |-> TRUE, balances |-> transfer_result.balances,
               allowances |->
                   insert(alws, <<from, caller>>, wrapping_sub(allowance_, value)),
               emitted |-> transfer_result.emitted]

\* The allowance is not written after the transfer.
do_transfer_from_no_consume(bals, alws, caller, from, to, value) ==
    LET allowance_ == allowance_of_or_zero(alws, from, caller) IN
    IF allowance_ < value
    THEN [ret |-> FALSE, balances |-> bals, allowances |-> alws, emitted |-> <<>>]
    ELSE LET transfer_result == transfer_from_to(bals, from, to, value) IN
         [ret |-> transfer_result.ret, balances |-> transfer_result.balances,
          allowances |-> alws, emitted |-> transfer_result.emitted]

\* The transfer is made from the caller's balance.
do_transfer_from_callers_funds(bals, alws, caller, from, to, value) ==
    LET allowance_ == allowance_of_or_zero(alws, from, caller) IN
    IF allowance_ < value
    THEN [ret |-> FALSE, balances |-> bals, allowances |-> alws, emitted |-> <<>>]
    ELSE LET transfer_result == transfer_from_to(bals, caller, to, value) IN
         IF ~transfer_result.ret
         THEN [ret |-> FALSE, balances |-> transfer_result.balances,
               allowances |-> alws, emitted |-> transfer_result.emitted]
         ELSE [ret |-> TRUE, balances |-> transfer_result.balances,
               allowances |->
                   insert(alws, <<from, caller>>, wrapping_sub(allowance_, value)),
               emitted |-> transfer_result.emitted]

\* The allowance is not compared with the value.
do_transfer_from_unchecked(bals, alws, caller, from, to, value) ==
    LET allowance_ == allowance_of_or_zero(alws, from, caller)
        transfer_result == transfer_from_to(bals, from, to, value)
    IN
    IF ~transfer_result.ret
    THEN [ret |-> FALSE, balances |-> transfer_result.balances,
          allowances |-> alws, emitted |-> transfer_result.emitted]
    ELSE [ret |-> TRUE, balances |-> transfer_result.balances,
          allowances |->
              insert(alws, <<from, caller>>, wrapping_sub(allowance_, value)),
          emitted |-> transfer_result.emitted]

\* The allowance is written under the key (caller, from).
do_transfer_from_wrong_key(bals, alws, caller, from, to, value) ==
    LET allowance_ == allowance_of_or_zero(alws, from, caller) IN
    IF allowance_ < value
    THEN [ret |-> FALSE, balances |-> bals, allowances |-> alws, emitted |-> <<>>]
    ELSE LET transfer_result == transfer_from_to(bals, from, to, value) IN
         IF ~transfer_result.ret
         THEN [ret |-> FALSE, balances |-> transfer_result.balances,
               allowances |-> alws, emitted |-> transfer_result.emitted]
         ELSE [ret |-> TRUE, balances |-> transfer_result.balances,
               allowances |->
                   insert(alws, <<caller, from>>, wrapping_sub(allowance_, value)),
               emitted |-> transfer_result.emitted]

\* The allowance check refuses a value equal to the allowance.
do_transfer_from_strict(bals, alws, caller, from, to, value) ==
    LET allowance_ == allowance_of_or_zero(alws, from, caller) IN
    IF allowance_ <= value
    THEN [ret |-> FALSE, balances |-> bals, allowances |-> alws, emitted |-> <<>>]
    ELSE LET transfer_result == transfer_from_to(bals, from, to, value) IN
         IF ~transfer_result.ret
         THEN [ret |-> FALSE, balances |-> transfer_result.balances,
               allowances |-> alws, emitted |-> transfer_result.emitted]
         ELSE [ret |-> TRUE, balances |-> transfer_result.balances,
               allowances |->
                   insert(alws, <<from, caller>>, wrapping_sub(allowance_, value)),
               emitted |-> transfer_result.emitted]

\* transfer_from as caller: the maps after the call, the events it emits and
\* the value it returns.
do_transfer_from(bals, alws, caller, from, to, value) ==
    LET allowance_ == allowance_of_or_zero(alws, from, caller) IN
    IF allowance_ < value
    THEN [ret |-> FALSE, balances |-> bals, allowances |-> alws, emitted |-> <<>>]
    ELSE LET transfer_result == transfer_from_to(bals, from, to, value) IN
         IF ~transfer_result.ret
         THEN [ret |-> FALSE, balances |-> transfer_result.balances,
               allowances |-> alws, emitted |-> transfer_result.emitted]
         ELSE [ret |-> TRUE, balances |-> transfer_result.balances,
               allowances |->
                   insert(alws, <<from, caller>>, wrapping_sub(allowance_, value)),
               emitted |-> transfer_result.emitted]

transfer_from(caller, from, to, value) ==
    \E r \in {do_transfer_from(balances, allowances, caller, from, to, value)} :
    /\ balances' = r.balances
    /\ allowances' = r.allowances
    /\ emitted' = r.emitted
    /\ last' = Call("transfer_from", caller, from, to, value, r.ret)
    /\ audit' = IF r.ret THEN audit_transfer_from(audit, caller, from, to, value)
                         ELSE audit
    /\ log' = log_emit(log, r.emitted)
    /\ UNCHANGED total_supply

Next ==
    \/ \E caller, to \in AccountId, value \in Balance : transfer(caller, to, value)
    \/ \E caller \in Owners, spender \in Spenders, value \in Balance :
          approve(caller, spender, value)
    \/ \E caller \in Spenders, from, to \in AccountId, value \in Balance :
          transfer_from(caller, from, to, value)

Spec == Init /\ [][Next]_vars

\* The calls that the owner and the spender of Followed make between
\* themselves.
Parties == {Followed[1], Followed[2]}

NextAudit ==
    \/ \E caller, to \in Parties, value \in Balance : transfer(caller, to, value)
    \/ \E caller \in Parties \cap Owners, spender \in Parties \cap Spenders,
          value \in Balance : approve(caller, spender, value)
    \/ \E caller \in Parties \cap Spenders, from, to \in Parties, value \in Balance :
          transfer_from(caller, from, to, value)

SpecAudit == InitAudit /\ [][NextAudit]_vars

\* The calls that the parties make between themselves while the log is
\* shorter than MaxLog.
NextLog == Len(log) < MaxLog /\ NextAudit

SpecLog == InitLog /\ [][NextLog]_vars

\* The same calls seen on the storage alone: what each call writes to the
\* three fields, without the record of the call and of its events.
transfer_storage(caller, to, value) ==
    \E r \in {transfer_from_to(balances, caller, to, value)} :
    /\ balances' = r.balances
    /\ UNCHANGED <<total_supply, allowances, emitted, last, audit, log>>

approve_storage(caller, spender, value) ==
    LET owner == caller IN
    /\ allowances' = insert(allowances, <<owner, spender>>, value)
    /\ UNCHANGED <<total_supply, balances, emitted, last, audit, log>>

transfer_from_storage(caller, from, to, value) ==
    \E r \in {do_transfer_from(balances, allowances, caller, from, to, value)} :
    /\ balances' = r.balances
    /\ allowances' = r.allowances
    /\ UNCHANGED <<total_supply, emitted, last, audit, log>>

NextStorage ==
    \/ \E caller, to \in AccountId, value \in Balance :
          transfer_storage(caller, to, value)
    \/ \E caller \in Owners, spender \in Spenders, value \in Balance :
          approve_storage(caller, spender, value)
    \/ \E caller \in Spenders, from, to \in AccountId, value \in Balance :
          transfer_from_storage(caller, from, to, value)

SpecStorage == Init /\ [][NextStorage]_vars

\* ---------------------------------------------------------------- properties
RECURSIVE SumOver(_, _)
SumOver(map, keys) ==
    IF keys = {} THEN 0
    ELSE LET k == CHOOSE x \in keys : TRUE IN map[k] + SumOver(map, keys \ {k})

\* The sum of all stored balances.
SumBalances == SumOver(balances, DOMAIN balances)

Max(a, b) == IF a >= b THEN a ELSE b

\* What balance_of and allowance answer after the step.
balance_of_next(owner) == balance_of_or_zero(balances', owner)
allowance_next(owner, spender) == allowance_of_or_zero(allowances', owner, spender)

Moved(op) == last.op = op /\ last.ret /\ last.value > 0

\* C1. Supply conservation: in every state reachable from new by transfer,
\* approve and transfer_from calls of any callers, successful or failing, the
\* sum of all stored balances equals total_supply.
C1_SupplyConservation == SumBalances = total_supply

\* A transfer_from has moved a positive value between two accounts, each of
\* which now holds some of the supply.
C1_Witness ==
    /\ Moved("transfer_from")
    /\ last.from # last.to
    /\ balance_of(last.from) > 0
    /\ balance_of(last.to) > 0

\* C2. Failure atomicity: a transfer or transfer_from that returns false
\* leaves every balance, every allowance and total_supply as they were before
\* the call (the maps are the same maps, entry for entry), and emits nothing.
C2_FailureAtomicity ==
    [][(last'.op \in {"transfer", "transfer_from"} /\ ~last'.ret) =>
          /\ balances' = balances
          /\ allowances' = allowances
          /\ total_supply' = total_supply
          /\ emitted' = <<>>]_vars

\* A transfer_from has failed on the balance of from, the allowance of the
\* caller being large enough for the value.
C2_Witness ==
    /\ last.op = "transfer_from"
    /\ ~last.ret
    /\ allowance(last.from, last.caller) >= last.value
    /\ balance_of(last.from) < last.value

\* C3. transfer(to, value) called by c returns true exactly when
\* balance_of(c) >= value before the call; when it does and c /= to, the
\* balance of c goes down by value, the balance of to goes up by value and
\* every other balance stays.
C3_Transfer ==
    [][last'.op = "transfer" =>
          LET c == last'.caller
              to == last'.to
              value == last'.value
          IN /\ last'.ret <=> (balance_of(c) >= value)
             /\ (last'.ret /\ c # to) =>
                   /\ balance_of_next(c) = balance_of(c) - value
                   /\ balance_of_next(to) = balance_of(to) + value
                   /\ \A x \in AccountId \ {c, to} :
                         balance_of_next(x) = balance_of(x)]_vars

\* A transfer has moved a positive part of the caller's balance to another
\* account.
C3_Witness ==
    /\ Moved("transfer")
    /\ last.caller # last.to
    /\ balance_of(last.caller) > 0

\* C4. transfer_from(from, to, value) called by s returns true exactly when
\* allowance(from, s) >= value and balance_of(from) >= value both held before
\* the call.
C4_TransferFromChecks ==
    [][last'.op = "transfer_from" =>
          (last'.ret <=>
              /\ allowance(last'.from, last'.caller) >= last'.value
              /\ balance_of(last'.from) >= last'.value)]_vars

\* A transfer_from of a positive value has failed although the caller's
\* allowance covers the whole supply.
C4_Witness ==
    /\ last.op = "transfer_from"
    /\ ~last.ret
    /\ last.value > 0
    /\ allowance(last.from, last.caller) >= total_supply
    /\ total_supply >= last.value

\* C5. Allowance consumption: a transfer_from(from, to, v) of s that returns
\* true leaves allowance(from, s) at its value before the call minus v, and
\* leaves every other entry of the allowances map as it was, whichever of s,
\* from and to are the same account.
C5_AllowanceConsumption ==
    [][(last'.op = "transfer_from" /\ last'.ret) =>
          LET key == <<last'.from, last'.caller>> IN
          /\ allowance_next(last'.from, last'.caller) =
                allowance(last'.from, last'.caller) - last'.value
          /\ DOMAIN allowances' \ {key} = DOMAIN allowances \ {key}
          /\ \A p \in DOMAIN allowances \ {key} : allowances'[p] = allowances[p]]_vars

\* An account has spent a part of the allowance it gave itself, on a transfer
\* to itself, and some of the allowance is left.
C5_Witness ==
    /\ Moved("transfer_from")
    /\ last.caller = last.from
    /\ last.from = last.to
    /\ allowance(last.from, last.caller) > 0

\* C6. A transfer_from(from, to, value) of s that returns true, with
\* from /= to, takes value from the balance of from and adds it to the balance
\* of to, and changes no other balance, the caller's included.
C6_TransferFromMovesFrom ==
    [][(last'.op = "transfer_from" /\ last'.ret /\ last'.from # last'.to) =>
          /\ balance_of_next(last'.from) = balance_of(last'.from) - last'.value
          /\ balance_of_next(last'.to) = balance_of(last'.to) + last'.value
          /\ \A x \in AccountId \ {last'.from, last'.to} :
                balance_of_next(x) = balance_of(x)]_vars

\* A spender that holds a balance of its own has moved a positive value
\* between two other accounts.
C6_Witness ==
    /\ Moved("transfer_from")
    /\ last.from # last.to
    /\ last.caller \notin {last.from, last.to}
    /\ balance_of(last.caller) > 0

\* C7. approve(spender, value) called by o returns true and leaves
\* allowance(o, spender) = value whatever it was before and whatever spender
\* and value are; it changes no other entry of the allowances map, no balance
\* and not total_supply, and emits the one event Approval(o, spender, value).
C7_Approve ==
    [][last'.op = "approve" =>
          LET o == last'.caller
              spender == last'.to
              key == <<last'.caller, last'.to>>
          IN /\ last'.ret
             /\ allowance_next(o, spender) = last'.value
             /\ DOMAIN allowances' \ {key} = DOMAIN allowances \ {key}
             /\ \A p \in DOMAIN allowances \ {key} : allowances'[p] = allowances[p]
             /\ balances' = balances
             /\ total_supply' = total_supply
             /\ emitted' = <<ApprovalEvent(o, spender, last'.value)>>]_vars

\* An owner that holds nothing has approved itself as the spender, for a
\* value above the total supply.
C7_Witness ==
    /\ last.op = "approve"
    /\ last.caller = last.to
    /\ balance_of(last.caller) = 0
    /\ last.value > total_supply
    /\ allowance(last.caller, last.to) = last.value

\* C8, as stated: once o has called approve(s, N) and then approve(s, M), the
\* value s has moved out of o's balance since the first approve is at most
\* max(N, M).
C8_Original ==
    \A p \in DOMAIN audit :
        audit[p].n = 2 => audit[p].moved <= Max(audit[p].N, audit[p].M)

\* C8, amended: after approve(s, N) alone s has moved at most N out of o's
\* balance, and after approve(s, N) and then approve(s, M) at most N + M.
C8_SpendBound ==
    \A p \in DOMAIN audit :
        /\ audit[p].n = 1 => audit[p].moved <= audit[p].N
        /\ audit[p].n = 2 => audit[p].moved <= audit[p].N + audit[p].M

\* The spender has moved N + M out of the owner's balance, N and M positive.
C8_Witness ==
    \E p \in DOMAIN audit :
        /\ audit[p].n = 2
        /\ audit[p].N > 0
        /\ audit[p].M > 0
        /\ audit[p].moved = audit[p].N + audit[p].M

\* C9. Self-transfer neutrality: transfer(to = caller, v) returns true when
\* v <= balance_of(caller); a transfer or transfer_from with from = to that
\* returns true leaves every balance as it was and emits the one event
\* Transfer(Some(from), Some(from), v).
C9_SelfTransfer ==
    [][(last'.op \in {"transfer", "transfer_from"} /\ last'.from = last'.to) =>
          /\ (last'.op = "transfer" /\ last'.value <= balance_of(last'.caller))
                => last'.ret
          /\ last'.ret =>
                /\ \A x \in AccountId : balance_of_next(x) = balance_of(x)
                /\ emitted' = <<TransferEvent(Some(last'.from), Some(last'.from),
                                              last'.value)>>]_vars

\* An account has transferred a positive value to itself.
C9_Witness ==
    /\ Moved("transfer")
    /\ last.from = last.to
    /\ last.caller = last.from

\* C10. total_supply is the inital_supply given to new, and no call changes it.
C10_TotalSupplyConstant ==
    /\ (last.op = "new" /\ total_supply = last.value)
    /\ [][total_supply' = total_supply]_vars

\* The whole of a positive supply has left the deployer's balance in one
\* transfer, and the total supply is what it was.
C10_Witness ==
    /\ Moved("transfer")
    /\ last.value = total_supply
    /\ last.from # last.to

\* C11. Construction postcondition: right after new(inital_supply) called by
\* c, whatever inital_supply is, total_supply and balance_of(c) are
\* inital_supply, every other balance and every allowance is 0, and the one
\* event emitted is Transfer(None, Some(c), inital_supply).
C11_Construction ==
    last.op = "new" =>
        /\ total_supply = last.value
        /\ balance_of(last.caller) = last.value
        /\ \A x \in AccountId \ {last.caller} : balance_of(x) = 0
        /\ \A o, s \in AccountId : allowance(o, s) = 0
        /\ emitted = <<TransferEvent(None, Some(last.caller), last.value)>>

\* The contract has been constructed with a supply of 0.
C11_Witness ==
    /\ last.op = "new"
    /\ last.value = 0
    /\ total_supply = 0

\* C12. allowance(o, s) changes in a step only if the step is approve(s, _)
\* called by o or a transfer_from(o, _, _) called by s that returns true; and
\* it goes up only in a call made by o.
C12_AllowanceFrame ==
    [][allowances' # allowances => \A o, s \in AccountId :
          /\ allowance_next(o, s) # allowance(o, s) =>
                \/ last'.op = "approve" /\ last'.caller = o /\ last'.to = s
                \/ /\ last'.op = "transfer_from"
                   /\ last'.ret
                   /\ last'.from = o
                   /\ last'.caller = s
          /\ allowance_next(o, s) > allowance(o, s) => last'.caller = o]_vars

\* An owner has transferred funds away, and the allowance it gave stands
\* above the balance it has left.
C12_Witness ==
    /\ Moved("transfer")
    /\ \E s \in AccountId :
          allowance(last.caller, s) > balance_of(last.caller)

\* C13. No arithmetic wraps: in every reachable state and for every call,
\* from_balance - value is computed only when from_balance >= value,
\* allowance - value only when allowance >= value, and to_balance + value is
\* never above MaxBalance: the balances and the allowance written are the
\* exact differences and sum.
C13_NoWrap ==
    \A from, to \in AccountId, value \in Balance :
        LET from_balance == balance_of(from)
            to_balance == IF to = from THEN from_balance - value ELSE balance_of(to)
        IN /\ \A t \in {transfer_from_to(balances, from, to, value)} :
                 t.ret =>
                    /\ from_balance - value >= 0
                    /\ to_balance + value <= MaxBalance
                    /\ t.balances[to] = to_balance + value
                    /\ to # from => t.balances[from] = from_balance - value
           /\ \A caller \in AccountId :
                 \A d \in {do_transfer_from(balances, allowances, caller, from, to, value)} :
                    d.ret =>
                       /\ allowance(from, caller) - value >= 0
                       /\ d.allowances[<<from, caller>>] =
                             allowance(from, caller) - value

\* Both ends of the range have been written: the deployer's balance has been
\* subtracted down to a stored 0, additions have brought another account up
\* to MaxBalance, and an allowance has been consumed down to a stored 0 that
\* its owner did not have before.
C13_Witness ==
    /\ Deployer \in DOMAIN balances
    /\ balances[Deployer] = 0
    /\ \E x \in AccountId \ {Deployer} : balance_of(x) = MaxBalance
    /\ \E s \in Spenders :
          /\ <<Deployer, s>> \in DOMAIN allowances
          /\ allowances[<<Deployer, s>>] = 0

\* C17. Authorization: a step in which balance_of(x) goes down is a transfer
\* called by x, or a transfer_from(x, _, value) of a caller s for which
\* allowance(x, s) >= value held before the call.
C17_Authorization ==
    [][balances' # balances => \A x \in AccountId :
          balance_of_next(x) < balance_of(x) =>
              \/ last'.op = "transfer" /\ last'.caller = x /\ last'.ret
              \/ /\ last'.op = "transfer_from"
                 /\ last'.ret
                 /\ last'.from = x
                 /\ allowance(x, last'.caller) >= last'.value]_vars

\* A spender has taken from another account exactly what it was allowed.
C17_Witness ==
    /\ Moved("transfer_from")
    /\ last.caller # last.from
    /\ last.from # last.to
    /\ allowance(last.from, last.caller) = 0
    /\ balance_of(last.from) > 0

\* C19. Zero-value calls succeed: transfer(to, 0) and transfer_from(from, to, 0)
\* return true in every reachable state, whoever calls them and whatever the
\* balance and the allowance are; they leave every balance_of and allowance
\* answer as it was and emit the one event Transfer(Some(from), Some(to), 0).
C19_ZeroValue ==
    /\ \A caller, to \in AccountId :
          \A t \in {transfer_from_to(balances, caller, to, 0)} :
             /\ t.ret
             /\ \A x \in AccountId : balance_of_or_zero(t.balances, x) = balance_of(x)
             /\ t.emitted = <<TransferEvent(Some(caller), Some(to), 0)>>
    /\ \A caller, from, to \in AccountId :
          \A d \in {do_transfer_from(balances, allowances, caller, from, to, 0)} :
             /\ d.ret
             /\ \A x \in AccountId : balance_of_or_zero(d.balances, x) = balance_of(x)
             /\ \A o, s \in AccountId :
                   allowance_of_or_zero(d.allowances, o, s) = allowance(o, s)
             /\ d.emitted = <<TransferEvent(Some(from), Some(to), 0)>>

\* An account that never calls approve and has never held anything has an
\* allowance entry and a balance entry: only a transfer_from of 0 that
\* returned true can have written them.
C19_Witness ==
    /\ total_supply > 0
    /\ balance_of(Deployer) = total_supply
    /\ \E from \in AccountId \ Owners, s \in Spenders :
          /\ <<from, s>> \in DOMAIN allowances
          /\ from \in DOMAIN balances

\* The maps that differ from map m in one entry only, absent in one and a
\* stored 0 in the other; keys is the key type of m.
ZeroTwins(m, keys) ==
    {[k \in DOMAIN m \ {x} |-> m[k]] : x \in {k \in DOMAIN m : m[k] = 0}}
        \cup {insert(m, x, 0) : x \in keys \ DOMAIN m}

\* balance_of and allowance answer the same on both ledgers.
SameAnswers(bals1, alws1, bals2, alws2) ==
    /\ \A x \in AccountId :
          balance_of_or_zero(bals1, x) = balance_of_or_zero(bals2, x)
    /\ \A o, s \in AccountId :
          allowance_of_or_zero(alws1, o, s) = allowance_of_or_zero(alws2, o, s)

\* Every call returns, emits and leaves the same answers on the ledger
\* (bals, alws) as on the ledger of the state.
SameCalls(bals, alws) ==
    /\ SameAnswers(balances, allowances, bals, alws)
    /\ \A caller, to \in AccountId, value \in Balance :
          \A t1 \in {transfer_from_to(balances, caller, to, value)} :
          \A t2 \in {transfer_from_to(bals, caller, to, value)} :
             /\ t1.ret = t2.ret
             /\ t1.emitted = t2.emitted
             /\ SameAnswers(t1.balances, allowances, t2.balances, alws)
    /\ \A caller, spender \in AccountId, value \in Balance :
          SameAnswers(balances, insert(allowances, <<caller, spender>>, value),
                      bals, insert(alws, <<caller, spender>>, value))
    /\ \A caller, from, to \in AccountId, value \in Balance :
          \A d1 \in {do_transfer_from(balances, allowances, caller, from, to, value)} :
          \A d2 \in {do_transfer_from(bals, alws, caller, from, to, value)} :
             /\ d1.ret = d2.ret
             /\ d1.emitted = d2.emitted
             /\ SameAnswers(d1.balances, d1.allowances, d2.balances, d2.allowances)

\* C14. Absence is a stored zero: take any reachable ledger and a second one
\* that differs from it in one entry only, absent in one and a stored 0 in the
\* other, for an account or for an owner/spender pair. Both give the same
\* balance_of and allowance answers (total_supply is no map entry), and every
\* call with the same caller and arguments returns the same result, emits the
\* same events and leaves the same answers on both, so that the two stay
\* indistinguishable along any sequence of calls.
C14_AbsenceIsZero ==
    /\ \A bals \in ZeroTwins(balances, AccountId) : SameCalls(bals, allowances)
    /\ \A alws \in ZeroTwins(allowances, AccountId \X AccountId) :
          SameCalls(balances, alws)

\* The ledger holds a stored 0 and an absent key in both maps, the stored
\* zeros left by a balance sent away in full and by an allowance used up.
C14_Witness ==
    /\ total_supply > 0
    /\ \E x \in DOMAIN balances : balances[x] = 0
    /\ DOMAIN balances # AccountId
    /\ \E k \in DOMAIN allowances : allowances[k] = 0

\* C16. Spend bound per approval: from an approve(s, N) of o to o's next
\* approve for s, the values of the successful transfer_from(o, _, _) calls of
\* s sum to at most N, and allowance(o, s) plus that sum is N in every state.
C16_SpendPerApproval ==
    \A p \in DOMAIN audit :
        audit[p].n \in {1, 2, 3} =>
            /\ audit[p].spent <= audit[p].cur
            /\ allowance(p[1], p[2]) + audit[p].spent = audit[p].cur

\* After a third approve at least, the spender has used a part of the
\* allowance and a part is left.
C16_Witness ==
    \E p \in DOMAIN audit :
        /\ audit[p].n = 3
        /\ audit[p].spent > 0
        /\ allowance(p[1], p[2]) > 0

\* C15. Shape of the notification log: the first notification is the
\* constructor's Transfer with from = None, no later one has from = None and
\* no Transfer has to = None; and every transfer or transfer_from that
\* returns true appends exactly one event, Transfer(Some(from), Some(to),
\* value) with the source account, the recipient and the amount of the call.
C15_LogShape ==
    /\ [](/\ Len(log) >= 1
          /\ log[1].event = "Transfer"
          /\ log[1].from = None
          /\ \A i \in 1 .. Len(log) :
                log[i].event = "Transfer" =>
                    /\ log[i].to # None
                    /\ i > 1 => log[i].from # None)
    /\ [][(last'.op \in {"transfer", "transfer_from"} /\ last'.ret) =>
             log' = Append(log, TransferEvent(Some(last'.from), Some(last'.to),
                                              last'.value))]_vars

\* After the constructor's event and an Approval, a spender's transfer_from
\* out of another account has put its Transfer at the end of the log.
C15_Witness ==
    /\ Moved("transfer_from")
    /\ last.caller # last.from
    /\ last.from # last.to
    /\ Len(log) = MaxLog
    /\ log[Len(log) - 1].event = "Approval"
    /\ log[Len(log)] = TransferEvent(Some(last.from), Some(last.to), last.value)

\* The sum of the values of the Transfer events of l whose field (from or to)
\* is Some(x).
RECURSIVE SumEvents(_, _, _)
SumEvents(l, field, x) ==
    IF l = <<>> THEN 0
    ELSE (IF Head(l).event = "Transfer" /\ Head(l)[field] = Some(x)
          THEN Head(l).value ELSE 0) + SumEvents(Tail(l), field, x)

\* C18. The Transfer log is a faithful record of the balances: in every
\* reachable state and for every account x, balance_of(x) is the sum of the
\* values of the emitted Transfer events with to = Some(x) minus the sum of the
\* values of those with from = Some(x).
C18_LogFaithful ==
    \A x \in AccountId :
        balance_of(x) = SumEvents(log, "to", x) - SumEvents(log, "from", x)

\* The log holds a transfer of a positive value out of the deployer's account
\* and, after it, one of a positive value back into it.
C18_Witness ==
    \E i, j \in 1 .. Len(log) :
        /\ i < j
        /\ log[i].event = "Transfer" /\ log[j].event = "Transfer"
        /\ log[i].from = Some(Deployer) /\ log[i].to # Some(Deployer)
        /\ log[j].to = Some(Deployer) /\ log[j].from = log[i].to
        /\ log[i].value > 0 /\ log[j].value > 0
====
